---- MODULE Spec2Model ----
(***************************************************************************)
(* Fedora hardening script generator: the option catalog, the selection    *)
(* state engine (App.handleOptionChange), the script assembly pipeline     *)
(* (App.handleGenerateScript), the improvement loop                        *)
(* (App.handleRunShellcheck) and the gateway (services/geminiService.ts).  *)
(***************************************************************************)
EXTENDS Integers, Sequences, FiniteSets, TLC

(***************************************************************************)
(* Bounds of the model.                                                    *)
(***************************************************************************)
MaxToggles == 2
MaxEdits == 1
MaxRuns == 1
MaxImproves == 1
MaxLearnToggles == 2
MaxLearnRuns == 2
MaxLearnEdits == 1
\* SpecRuns: generation runs one after the other
MaxRepeatRuns == 2
\* SpecRelearn: improvement runs one after the other
MaxRelearns == 2
\* SpecAnalyze: analysis requests one after the other
MaxAnalyses == 2
\* SpecTwice: toggles one after the other
MaxTwice == 4
\* SpecGateway: the longest text the remote answers with
MaxLen == 6

(***************************************************************************)
(* The option catalog (constants.ts).  A prompt is a text; the empty text  *)
(* is <<>>.  A leaf has no subOptions property: it is modelled by the      *)
(* empty sequence, and HasSub is the truthiness test of the code (every    *)
(* subOptions array of the catalog is non-empty).  `obj` names the object: *)
(* the leaves are shared objects of allOptions, every parent entry of      *)
(* PARANOIA_LEVELS is an object of its own.                                *)
(***************************************************************************)
NoParent == "null"

Leaf(i, reboot) ==
    [obj |-> i, id |-> i, prompt |-> <<"P0", i>>, subOptions |-> <<>>,
     rebootRequired |-> reboot]

Parent(o, i, subs) ==
    [obj |-> o, id |-> i, prompt |-> <<>>, subOptions |-> subs,
     rebootRequired |-> FALSE]

HasSub(option) == option.subOptions # <<>>

LeafIds ==
    {"updates", "firewall", "ssh", "fail2ban", "passwordPolicy",
     "userAccountManagement", "sudoAudit", "kernel", "filesystem", "logging",
     "auditFileAccess", "auditCommands", "auditLogins", "selinux", "sshPort",
     "umask", "autoUpdates", "disableFilesystems", "bindCheck", "grubPassword",
     "iptablesAdvanced", "iptablesBogon", "iptablesPortKnocking", "dnfSecurity",
     "pciDss"}

RebootLeaves == {"kernel", "filesystem", "selinux", "disableFilesystems", "grubPassword"}

allOptions == [i \in LeafIds |-> Leaf(i, i \in RebootLeaves)]

userManagementParent ==
    Parent("userManagement", "userManagement",
           <<allOptions.passwordPolicy, allOptions.userAccountManagement,
             allOptions.sudoAudit, allOptions.umask>>)

systemInternalsParent ==
    Parent("systemInternals", "systemInternals",
           <<allOptions.kernel, allOptions.selinux>>)

serviceHardeningParent ==
    Parent("serviceHardening", "serviceHardening", <<allOptions.bindCheck>>)

iptablesParent ==
    Parent("iptables", "iptables",
           <<allOptions.iptablesAdvanced, allOptions.iptablesBogon,
             allOptions.iptablesPortKnocking>>)

loggingParent ==
    Parent("loggingParent", "loggingParent",
           <<allOptions.logging, allOptions.auditFileAccess,
             allOptions.auditCommands, allOptions.auditLogins>>)

bootAndFilesystemParent ==
    Parent("bootAndFilesystem", "bootAndFilesystem",
           <<allOptions.grubPassword, allOptions.filesystem,
             allOptions.disableFilesystems>>)

complianceParent ==
    Parent("compliance", "compliance", <<allOptions.pciDss>>)

\* The levels spread systemAndPackagesParent and networkSecurityParent with
\* their own subOptions: levels 1 and 2 each hold an object with the id
\* 'systemAndPackages' and an object with the id 'networkSecurity'.
PARANOIA_LEVELS ==
    << [level |-> 1,
        options |->
          << Parent("systemAndPackages@1", "systemAndPackages",
                    <<allOptions.updates>>),
             Parent("networkSecurity@1", "networkSecurity",
                    <<allOptions.firewall, allOptions.ssh, allOptions.sshPort>>) >>],
       [level |-> 2,
        options |->
          << Parent("systemAndPackages@2", "systemAndPackages",
                    <<allOptions.autoUpdates, allOptions.dnfSecurity>>),
             Parent("networkSecurity@2", "networkSecurity",
                    <<allOptions.fail2ban>>),
             userManagementParent,
             systemInternalsParent,
             serviceHardeningParent >>],
       [level |-> 3,
        options |->
          << iptablesParent,
             bootAndFilesystemParent,
             loggingParent,
             complianceParent >>] >>

(***************************************************************************)
(* Pre-computation of App: getAllOptionsRecursively, buildLookups and the  *)
(* two maps it fills.  A Map keeps a key at the place of its first set()   *)
(* and holds the value of its last set().                                  *)
(***************************************************************************)
RECURSIVE getAllOptionsRecursively(_)
getAllOptionsRecursively(options) ==
    IF options = <<>> THEN <<>>
    ELSE LET option == Head(options)
         IN  <<option>>
             \o (IF HasSub(option)
                   THEN getAllOptionsRecursively(option.subOptions)
                   ELSE <<>>)
             \o getAllOptionsRecursively(Tail(options))

\* The set() calls of buildLookups, in the order they are made.
RECURSIVE buildLookups(_, _)
buildLookups(options, parentId) ==
    IF options = <<>> THEN <<>>
    ELSE LET option == Head(options)
         IN  <<[option |-> option, parentId |-> parentId]>>
             \o (IF HasSub(option)
                   THEN buildLookups(option.subOptions, option.id)
                   ELSE <<>>)
             \o buildLookups(Tail(options), parentId)

RECURSIVE LookupCalls(_)
LookupCalls(levels) ==
    IF levels = <<>> THEN <<>>
    ELSE buildLookups(Head(levels).options, NoParent) \o LookupCalls(Tail(levels))

SetCalls == LookupCalls(PARANOIA_LEVELS)

Ids == {SetCalls[i].option.id : i \in DOMAIN SetCalls}

LastSet(id) ==
    CHOOSE i \in DOMAIN SetCalls :
        /\ SetCalls[i].option.id = id
        /\ \A j \in DOMAIN SetCalls : SetCalls[j].option.id = id => j <= i

FirstSet(id) ==
    CHOOSE i \in DOMAIN SetCalls :
        /\ SetCalls[i].option.id = id
        /\ \A j \in DOMAIN SetCalls : SetCalls[j].option.id = id => i <= j

idToOptionMap == [id \in Ids |-> SetCalls[LastSet(id)].option]

\* parentMap.get(id): the parent id of the last set() for id, NoParent when
\* the map has no entry for id.
parentMap ==
    [id \in Ids |->
        LET S == {i \in DOMAIN SetCalls :
                     SetCalls[i].option.id = id /\ SetCalls[i].parentId # NoParent}
        IN  IF S = {} THEN NoParent
            ELSE SetCalls[CHOOSE i \in S : \A j \in S : j <= i].parentId]

\* The keys of idToOptionMap in insertion order.
RECURSIVE KeysFrom(_)
KeysFrom(i) ==
    IF i > Len(SetCalls) THEN <<>>
    ELSE (IF FirstSet(SetCalls[i].option.id) = i
            THEN <<SetCalls[i].option.id>> ELSE <<>>) \o KeysFrom(i + 1)

MapKeys == KeysFrom(1)

allOptionsFromLevels == [i \in DOMAIN MapKeys |-> idToOptionMap[MapKeys[i]]]

initialSelections == [key \in Ids |-> FALSE]

(***************************************************************************)
(* Texts.  A text is a sequence of characters; the three-backtick fence    *)
(* and the language tags bash and sh are single symbols of the alphabet.   *)
(***************************************************************************)
FENCE == "<fence>"
NL == "\n"
SP == " "
WhiteSpace == {SP, NL}

RECURSIVE TrimStart(_)
TrimStart(t) ==
    IF t # <<>> /\ Head(t) \in WhiteSpace THEN TrimStart(Tail(t)) ELSE t

RECURSIVE TrimEnd(_)
TrimEnd(t) ==
    IF t # <<>> /\ t[Len(t)] \in WhiteSpace
      THEN TrimEnd(SubSeq(t, 1, Len(t) - 1)) ELSE t

\* String.prototype.trim
Trim(t) == TrimEnd(TrimStart(t))

\* String.prototype.startsWith
StartsWith(t, prefix) ==
    Len(t) >= Len(prefix) /\ SubSeq(t, 1, Len(prefix)) = prefix

\* String.prototype.includes on a text of words
Includes(t, phrase) ==
    \E i \in 0..(Len(t) - Len(phrase)) : SubSeq(t, i + 1, i + Len(phrase)) = phrase

(***************************************************************************)
(* Gateway: services/geminiService.ts.                                     *)
(***************************************************************************)
\* rawOutput.replace(/^FENCE(?:bash|sh)?\s*/, '')
StripLeadingFence(t) ==
    IF t # <<>> /\ Head(t) = FENCE
      THEN LET r == Tail(t)
               afterTag == IF r # <<>> /\ Head(r) \in {"bash", "sh"} THEN Tail(r) ELSE r
           IN  TrimStart(afterTag)
      ELSE t

\* .replace(/FENCE$/, '')
StripTrailingFence(t) ==
    IF t # <<>> /\ t[Len(t)] = FENCE THEN SubSeq(t, 1, Len(t) - 1) ELSE t

cleanScriptOutput_NoTrim(rawOutput) == StripTrailingFence(StripLeadingFence(rawOutput))

cleanScriptOutput(rawOutput) == Trim(StripTrailingFence(StripLeadingFence(rawOutput)))

\* String.prototype.toLowerCase on the words the model uses.
LowerWord(w) ==
    CASE w = "API" -> "api"
      [] w = "Network" -> "network"
      [] w = "Rate" -> "rate"
      [] w = "Permission" -> "permission"
      [] OTHER -> w

toLowerCase(t) == [i \in DOMAIN t |-> LowerWord(t[i])]

ConfigurationError ==
    <<"Configuration", "Error:", "The", "API_KEY", "environment", "variable",
      "is", "not", "set.">>
AuthenticationError ==
    <<"Authentication", "Error:", "The", "API", "key", "is", "invalid", "or", "missing.">>
NetworkError ==
    <<"Network", "Error:", "Could", "not", "connect", "to", "the", "API.">>
RateLimitError ==
    <<"Rate", "Limit", "Exceeded:", "Too", "many", "requests", "sent.">>
GenericApiError(context) ==
    <<"An", "unexpected", "API", "error", "occurred", "during", context>>
UnknownError(context) ==
    <<"An", "unknown", "error", "occurred", "during", context>>

handleApiError_NetworkFirst(error, context) ==
    IF error.isError
      THEN LET message == toLowerCase(error.message)
           IN  IF \/ Includes(message, <<"fetch", "failed">>)
                  \/ Includes(message, <<"network">>)
                 THEN NetworkError
               ELSE IF \/ Includes(message, <<"api", "key", "not", "valid">>)
                       \/ Includes(message, <<"permission", "denied">>)
                 THEN AuthenticationError
               ELSE IF \/ Includes(message, <<"resource", "has", "been", "exhausted">>)
                       \/ Includes(message, <<"rate", "limit">>)
                 THEN RateLimitError
               ELSE GenericApiError(context)
      ELSE UnknownError(context)

\* The message of the Error that handleApiError returns.  `error` is what
\* was thrown: [isError, message].
handleApiError(error, context) ==
    IF error.isError
      THEN LET message == toLowerCase(error.message)
           IN  IF \/ Includes(message, <<"api", "key", "not", "valid">>)
                  \/ Includes(message, <<"permission", "denied">>)
                 THEN AuthenticationError
               ELSE IF \/ Includes(message, <<"fetch", "failed">>)
                       \/ Includes(message, <<"network">>)
                 THEN NetworkError
               ELSE IF \/ Includes(message, <<"resource", "has", "been", "exhausted">>)
                       \/ Includes(message, <<"rate", "limit">>)
                 THEN RateLimitError
               ELSE GenericApiError(context)
      ELSE UnknownError(context)

\* What ai.models.generateContent can do: resolve with a response that has a
\* text, resolve with a response without text, or throw one of RemoteErrors.
RemoteErrors ==
    { [isError |-> TRUE, message |-> <<"API", "key", "not", "valid">>],
      [isError |-> TRUE, message |-> <<"fetch", "failed">>],
      [isError |-> TRUE, message |-> <<"Rate", "limit", "reached">>],
      [isError |-> TRUE, message |-> <<"boom">>],
      [isError |-> FALSE, message |-> <<>>],
      [isError |-> TRUE, message |-> <<"Permission", "denied">>],
      [isError |-> TRUE, message |-> <<"Network", "unreachable">>],
      [isError |-> TRUE, message |-> <<"resource", "has", "been", "exhausted">>],
      [isError |-> TRUE, message |-> <<"Network", "API", "key", "not", "valid">>],
      [isError |-> TRUE, message |-> <<"rate", "limit", "fetch", "failed">>] }

\* rawScript.replace on an undefined response.text throws a TypeError.
TypeErrorThrown ==
    [isError |-> TRUE,
     message |-> <<"Cannot", "read", "properties", "of", "undefined">>]

RemoteText(t) == [kind |-> "text", text |-> t, error |-> TypeErrorThrown]
RemoteNoText == [kind |-> "notext", text |-> <<>>, error |-> TypeErrorThrown]
RemoteThrow(e) == [kind |-> "throw", text |-> <<>>, error |-> e]

\* The texts the remote answers a generation request with in the runs of
\* the pipeline: a header with a shebang inside a fence or one without a
\* shebang, a text of its own for every option, a footer.
PipelineTexts(call) ==
    CASE call.op = "header" ->
           { <<FENCE, "bash", NL, "#", "!", "h", NL, FENCE>>, <<"h", NL>> }
      [] call.op = "section" -> { <<"s:", call.id, NL>> }
      [] OTHER -> { <<FENCE, NL, "f", FENCE>> }

\* The behaviours of the remote that the runs of the pipeline go through:
\* a text, a response without text, a thrown Error.
PipelineResults(call) ==
    {RemoteText(t) : t \in PipelineTexts(call)}
    \cup {RemoteNoText}
    \cup {RemoteThrow(e) :
            e \in {x \in RemoteErrors : x.message = <<"fetch", "failed">>}}

callApi_CheckInsideTry(hasKey, remote) ==
    IF ~hasKey
      THEN [ok |-> FALSE,
            value |-> handleApiError([isError |-> TRUE, message |-> ConfigurationError],
                                     "script generation"),
            dispatched |-> FALSE]
    ELSE IF remote.kind = "text"
      THEN [ok |-> TRUE, value |-> cleanScriptOutput(remote.text), dispatched |-> TRUE]
    ELSE [ok |-> FALSE, value |-> handleApiError(remote.error, "script generation"),
          dispatched |-> TRUE]

\* callApi: what the promise settles to, for the state of the credential
\* and the behaviour of the remote.
callApi(hasKey, remote) ==
    IF ~hasKey
      THEN [ok |-> FALSE, value |-> ConfigurationError, dispatched |-> FALSE]
    ELSE IF remote.kind = "text"
      THEN [ok |-> TRUE, value |-> cleanScriptOutput(remote.text), dispatched |-> TRUE]
    ELSE [ok |-> FALSE, value |-> handleApiError(remote.error, "script generation"),
          dispatched |-> TRUE]

\* The three generation operations build a prompt and return callApi(prompt).
generateScriptHeaderAndHelpers(key, remote) == callApi(key, remote)
generateScriptSection(key, remote) == callApi(key, remote)
generateScriptFooter(key, remote) == callApi(key, remote)

\* The values JSON.parse can put in result.securityScore, and NaN.
Num(n) == [type |-> "number", n |-> n, s |-> ""]
Str(s) == [type |-> "string", n |-> 0, s |-> s]
Bool(b) == [type |-> "boolean", n |-> IF b THEN 1 ELSE 0, s |-> ""]
JsNull == [type |-> "null", n |-> 0, s |-> ""]
Undefined == [type |-> "undefined", n |-> 0, s |-> ""]
NaN == [type |-> "NaN", n |-> 0, s |-> ""]

\* The scores of the responses: numbers below, inside and above the range,
\* a missing field, null, strings and booleans.
ScoreValues ==
    { Num(0 - 10), Num(0), Num(85), Num(100), Num(150), Undefined, JsNull,
      Str("85"), Str("high"), Str(""), Bool(TRUE), Bool(FALSE) }

\* ToBoolean
Truthy(v) ==
    CASE v.type = "number" -> v.n # 0
      [] v.type = "string" -> v.s # ""
      [] v.type = "boolean" -> v.n = 1
      [] OTHER -> FALSE

\* ToNumber, on the strings of ScoreValues
ToNumber(v) ==
    CASE v.type = "number" -> v
      [] v.type = "string" ->
           IF v.s = "" THEN Num(0) ELSE IF v.s = "85" THEN Num(85) ELSE NaN
      [] v.type = "boolean" -> Num(v.n)
      [] v.type = "null" -> Num(0)
      [] OTHER -> NaN

\* Math.min(a, b) and Math.max(a, b)
MathMin(a, b) ==
    LET x == ToNumber(a)
        y == ToNumber(b)
    IN  IF NaN \in {x, y} THEN NaN ELSE Num(IF x.n <= y.n THEN x.n ELSE y.n)
MathMax(a, b) ==
    LET x == ToNumber(a)
        y == ToNumber(b)
    IN  IF NaN \in {x, y} THEN NaN ELSE Num(IF x.n >= y.n THEN x.n ELSE y.n)

\* typeof score !== 'number' || score < 0 || score > 100
NeedsClamp(score) == score.type # "number" \/ score.n < 0 \/ score.n > 100

\* Math.max(0, Math.min(100, score || 0)) when the test above holds
ClampScore(score) ==
    IF NeedsClamp(score)
      THEN MathMax(Num(0), MathMin(Num(100), IF Truthy(score) THEN score ELSE Num(0)))
      ELSE score

InvalidAnalysisResponse ==
    [isError |-> TRUE,
     message |-> <<"Invalid", "Response:", "The", "analysis", "data", "from", "the",
                   "API", "was", "malformed">>]

\* What ai.models.generateContent can do for an analysis request: a JSON
\* object, the JSON text null, a text that is no JSON, a thrown error.
AnalysisJson(score) ==
    [kind |-> "json", isObject |-> TRUE, securityScore |-> score,
     error |-> TypeErrorThrown]
AnalysisNull ==
    [kind |-> "json", isObject |-> FALSE, securityScore |-> Undefined,
     error |-> TypeErrorThrown]
NotJson(e) == [kind |-> "text", error |-> e]

AnalysisResults ==
    {AnalysisJson(v) : v \in ScoreValues}
    \cup {AnalysisNull, NotJson(InvalidAnalysisResponse)}
    \cup {RemoteThrow(e) : e \in RemoteErrors}

\* analyzeScriptOutput: what the promise settles to.
analyzeScriptOutput(key, remote) ==
    IF ~key
      THEN [ok |-> FALSE, value |-> ConfigurationError, dispatched |-> FALSE]
    ELSE IF remote.kind = "json" /\ remote.isObject
      THEN [ok |-> TRUE, value |-> [securityScore |-> ClampScore(remote.securityScore)],
            dispatched |-> TRUE]
    ELSE [ok |-> FALSE, value |-> handleApiError(remote.error, "output analysis"),
          dispatched |-> TRUE]

(***************************************************************************)
(* State.                                                                  *)
(***************************************************************************)
VARIABLES
    selectedOptions,     \* App state: option id -> selected
    customPrompt,        \* App state: the free-text input
    customExclusions,    \* App state: the exclusions input
    generatedScript,     \* App state: the script shown to observers
    isLoading,           \* App state: a generation run is in progress
    error,               \* App state: the error of the last run, or Null
    generationStatus,    \* App state: the progress value, or NullStatus
    lastActiveOptions,   \* App state: the active options of the last run
    isRebootRecommended, \* App state
    prompt,              \* the prompt field of the objects of idToOptionMap
    hasKey,              \* process.env.API_KEY is set
    gen,                 \* the locals of the handleGenerateScript call in progress
    calls,               \* the gateway calls of the current (or last) run, in order
    progressLog,         \* the setGenerationStatus(non-null) calls of that run
    isImproving,         \* App state: an improvement run is in progress
    improvingError,      \* App state: the error of the last improvement run, or Null
    improvedScript,      \* App state: the corrected script
    improvementSummary,  \* App state
    improvedPromptIds,   \* App state: the improved-id set
    showImprovementSuccess, \* App state: the success signal
    imp,                 \* the locals of the handleRunShellcheck call in progress
    improveLog,          \* the requests sent to runShellcheckAndLearn, in order
    improvesLeft,        \* improvement requests the behaviour may still make
    togglesLeft,         \* handleOptionChange calls the behaviour may still make
    editsLeft,           \* edits of the two text inputs it may still make
    runsLeft,            \* generation runs it may still start
    lastToggle,          \* history (SpecSel): the last handleOptionChange call
    gw,                  \* a gateway operation called on its own, and its outcome
    scriptOutput,        \* App state: the pasted output text
    analysisResult,      \* App state: the analysis result, or JsNull
    analysisError,       \* App state: the error of the last analysis, or Null
    isAnalyzing,         \* App state: an analysis request is in progress
    ana                  \* the handleAnalyzeOutput call in progress: its position,
                         \* the calls of analyzeScriptOutput made so far, and the
                         \* requests the behaviour may still make

selVars == <<selectedOptions, togglesLeft>>
inputVars == <<customPrompt, customExclusions, editsLeft>>
genVars == <<generatedScript, isLoading, error, generationStatus, lastActiveOptions,
             isRebootRecommended, gen, calls, progressLog, runsLeft>>
\* improvedScript and improvementSummary are written by both handlers.
shownVars == <<improvedScript, improvementSummary>>
impVars == <<isImproving, improvingError, improvedPromptIds, showImprovementSuccess,
             imp, improveLog, improvesLeft>>
envVars == <<prompt, hasKey>>

histVars == <<lastToggle>>

gwVars == <<gw>>

anaVars == <<scriptOutput, analysisResult, analysisError, isAnalyzing, ana>>

vars == <<selVars, inputVars, genVars, shownVars, impVars, envVars, histVars, gwVars,
          anaVars>>

NoId == "none"
Null == <<"<null>">>
MAX_CUSTOM_PROMPT_LENGTH == 1000

NoMessage == [step |-> 0, what |-> "none", label |-> ""]
NullStatus == [totalSteps |-> 0, currentStep |-> 0, message |-> NoMessage]

\* The improvement handler at rest; runsLeft is history: the generation runs
\* that were left when the request in flight was dispatched.
IdleImp == [pc |-> "idle", improvedPromptIds |-> {}, runsLeft |-> 0]

IdleGw == [op |-> "none"]

IdleGen ==
    [pc |-> "idle", outcome |-> "None", activeOptions |-> <<>>, snapshot |-> <<>>,
     totalSteps |-> 0, currentStep |-> 0, fullScript |-> <<>>, i |-> 0]

(***************************************************************************)
(* Selection state engine: handleOptionChange.                             *)
(***************************************************************************)
\* prev[id] read as a boolean: a missing key is undefined, which is falsy.
Sel(sel, id) == IF id \in DOMAIN sel THEN sel[id] ELSE FALSE

\* newSelections[id] = value
SetSel(sel, id, value) ==
    [k \in DOMAIN sel \cup {id} |-> IF k = id THEN value ELSE sel[k]]

\* Mutant of SetAll: every key of the selection state is written.
SetAll_Everything(sel, options, value) == [k \in DOMAIN sel |-> value]

\* Mutant of SetAll: the descendants are not written.
SetAll_Nothing(sel, options, value) == sel

RECURSIVE SetAll(_, _, _)
SetAll(sel, options, value) ==
    IF options = <<>> THEN sel
    ELSE SetAll(SetSel(sel, Head(options).id, value), Tail(options), value)

\* Mutant of PropagateUp: a deselected child leaves its ancestors as they are.
RECURSIVE PropagateUp_KeepOnUncheck(_, _, _)
PropagateUp_KeepOnUncheck(sel, parentId, isChecked) ==
    IF parentId = NoParent THEN sel
    ELSE LET parentOption == idToOptionMap[parentId]
         IN  IF ~HasSub(parentOption) THEN sel
             ELSE LET allChildrenChecked ==
                          \A i \in DOMAIN parentOption.subOptions :
                              Sel(sel, parentOption.subOptions[i].id)
                      next == SetSel(sel, parentId,
                                     IF ~isChecked THEN Sel(sel, parentId)
                                     ELSE allChildrenChecked)
                  IN  PropagateUp_KeepOnUncheck(next, parentMap[parentId], isChecked)

\* 3. Propagate changes upwards to all ancestors
RECURSIVE PropagateUp(_, _, _)
PropagateUp(sel, parentId, isChecked) ==
    IF parentId = NoParent THEN sel
    ELSE LET parentOption == idToOptionMap[parentId]
         IN  IF ~HasSub(parentOption) THEN sel
             ELSE LET allChildrenChecked ==
                          \A i \in DOMAIN parentOption.subOptions :
                              Sel(sel, parentOption.subOptions[i].id)
                      next == SetSel(sel, parentId,
                                     IF ~isChecked THEN FALSE ELSE allChildrenChecked)
                  IN  PropagateUp(next, parentMap[parentId], isChecked)

\* The updater passed to setSelectedOptions.
NewSelections(prev, id) ==
    LET isChecked == ~Sel(prev, id)
        s1 == SetSel(prev, id, isChecked)
        s2 == IF id \in Ids /\ HasSub(idToOptionMap[id])
                THEN SetAll(s1, getAllOptionsRecursively(idToOptionMap[id].subOptions),
                            isChecked)
                ELSE s1
    IN  PropagateUp(s2, IF id \in Ids THEN parentMap[id] ELSE NoParent, isChecked)

\* A click on the checkbox of a catalog option.
handleOptionChange(id) ==
    /\ togglesLeft > 0
    /\ selectedOptions' = NewSelections(selectedOptions, id)
    /\ togglesLeft' = togglesLeft - 1
    /\ UNCHANGED <<inputVars, genVars, shownVars, impVars, envVars, gwVars, anaVars>>

(***************************************************************************)
(* The two text inputs.                                                    *)
(***************************************************************************)
PromptInputs == { <<>>, <<SP>>, <<SP, "c">> }
ExclusionInputs == { <<SP>>, <<"x", SP>> }

\* onChange of the custom-prompt textarea
setCustomPrompt(value) ==
    /\ editsLeft > 0
    /\ customPrompt' = value
    /\ editsLeft' = editsLeft - 1
    /\ UNCHANGED <<customExclusions, selVars, genVars, shownVars, impVars, envVars,
                   histVars, gwVars, anaVars>>

\* onChange of the custom-exclusions input
setCustomExclusions(value) ==
    /\ editsLeft > 0
    /\ customExclusions' = value
    /\ editsLeft' = editsLeft - 1
    /\ UNCHANGED <<customPrompt, selVars, genVars, shownVars, impVars, envVars, histVars,
                   gwVars, anaVars>>

isPromptTooLong == Len(customPrompt) > MAX_CUSTOM_PROMPT_LENGTH

\* Mutant of isAnyOptionSelected: the test always passes.
isAnyOptionSelected_Always == TRUE

isAnyOptionSelected ==
    \/ \E k \in DOMAIN selectedOptions : selectedOptions[k]
    \/ Trim(customPrompt) # <<>>

\* Mutant of GenerateEnabled: the button is not disabled while loading.
GenerateEnabled_WhileLoading == ~isPromptTooLong /\ isAnyOptionSelected

\* disabled={isLoading || isPromptTooLong || !isAnyOptionSelected}
GenerateEnabled == ~isLoading /\ ~isPromptTooLong /\ isAnyOptionSelected

(***************************************************************************)
(* Script assembly pipeline: handleGenerateScript.                         *)
(***************************************************************************)
\* An element of activeOptions: a reference to an object of
\* allOptionsFromLevels, or the custom object, which carries its own prompt.
CatalogRef(option) == [id |-> option.id, custom |-> FALSE, prompt |-> <<>>]

CustomOption(finalCustomPrompt) ==
    [id |-> "custom", custom |-> TRUE, prompt |-> finalCustomPrompt]

\* option.prompt, read now
PromptOf(option, prompts) ==
    IF option.custom THEN option.prompt ELSE prompts[option.id]

\* The prompt texts the options of a list have now (history of a run: what
\* its active options held when the list was built).
PromptsOf(options, prompts) == [k \in DOMAIN options |-> PromptOf(options[k], prompts)]

\* allOptionsFromLevels.filter(option => selectedOptions[option.id] && option.prompt)
RECURSIVE FilterActive(_, _, _)
FilterActive(options, sel, prompts) ==
    IF options = <<>> THEN <<>>
    ELSE (IF Sel(sel, Head(options).id) /\ prompts[Head(options).id] # <<>>
            THEN <<CatalogRef(Head(options))>> ELSE <<>>)
         \o FilterActive(Tail(options), sel, prompts)

FinalCustomPrompt(cp, ce) ==
    <<"Custom Request:">> \o Trim(cp)
    \o (IF Trim(ce) # <<>> THEN <<"EXCLUSIONS:">> \o Trim(ce) ELSE <<>>)

ActiveOptions(sel, prompts, cp, ce) ==
    FilterActive(allOptionsFromLevels, sel, prompts)
    \o (IF Trim(cp) # <<>> THEN <<CustomOption(FinalCustomPrompt(cp, ce))>> ELSE <<>>)

\* Mutant of RebootNeeded: every() in place of some().
RebootNeeded_Every(activeOptions) ==
    \A k \in DOMAIN activeOptions :
        /\ activeOptions[k].id \in Ids
        /\ idToOptionMap[activeOptions[k].id].rebootRequired

\* activeOptions.some(option => idToOptionMap.get(option.id)?.rebootRequired)
RebootNeeded(activeOptions) ==
    \E k \in DOMAIN activeOptions :
        /\ activeOptions[k].id \in Ids
        /\ idToOptionMap[activeOptions[k].id].rebootRequired

\* Mutant of Progress: currentStep++ is missing.
Progress_NoIncrement(g, message) ==
    [totalSteps |-> g.totalSteps, currentStep |-> g.currentStep, message |-> message]

\* updateProgress(stepMessage): the status it sets, from the locals g.
Progress(g, message) ==
    [totalSteps |-> g.totalSteps, currentStep |-> g.currentStep + 1, message |-> message]

GatewayCall(op, option, prompts) ==
    [op |-> op, id |-> option.id, prompt |-> PromptOf(option, prompts),
     state |-> "inflight", result |-> <<>>]

NoOption == [id |-> "", custom |-> TRUE, prompt |-> <<>>]

\* The promise of the last call settles: resolved with a text, or failed
\* with the message of the Error thrown.
SettleLast(log, state, result) ==
    [log EXCEPT ![Len(log)].state = state, ![Len(log)].result = result]

\* Mutant of WithPiece: the piece is put in front of the script.
WithPiece_Prepend(fullScript, piece) == piece \o <<NL, NL>> \o fullScript

\* fullScript += header + '\n\n'  and  fullScript += section + '\n\n'
WithPiece(fullScript, piece) == fullScript \o piece \o <<NL, NL>>

\* Mutant of WithFooter: the footer is followed by a blank line as well.
WithFooter_BlankLine(fullScript, footer) == fullScript \o footer \o <<NL, NL>>

\* fullScript += footer + '\n'
WithFooter(fullScript, footer) == fullScript \o footer \o <<NL>>

\* The click on the generate button, up to the first await.
handleGenerateScript ==
    /\ GenerateEnabled
    /\ runsLeft > 0
    /\ runsLeft' = runsLeft - 1
    /\ isLoading' = TRUE
    /\ error' = Null
    /\ LET activeOptions ==
               ActiveOptions(selectedOptions, prompt, customPrompt, customExclusions)
           totalSteps == Len(activeOptions) + 2
           g0 == [pc |-> "header", outcome |-> "Running",
                  activeOptions |-> activeOptions,
                  snapshot |-> PromptsOf(activeOptions, prompt),
                  totalSteps |-> totalSteps,
                  currentStep |-> 0, fullScript |-> <<>>, i |-> 0]
           initial == [totalSteps |-> totalSteps, currentStep |-> 0,
                       message |-> [step |-> 0, what |-> "init", label |-> ""]]
           step1 == Progress(g0, [step |-> 1, what |-> "header", label |-> ""])
       IN  /\ lastActiveOptions' = activeOptions
           /\ isRebootRecommended' = RebootNeeded(activeOptions)
           /\ progressLog' = <<initial, step1>>
           /\ generationStatus' = step1
           /\ gen' = [g0 EXCEPT !.currentStep = 1]
           /\ calls' = <<GatewayCall("header", NoOption, prompt)>>
    /\ generatedScript' = <<>>
    /\ improvedScript' = <<>>
    /\ improvementSummary' = <<>>
    /\ UNCHANGED <<selVars, inputVars, impVars, envVars, histVars, gwVars, anaVars>>

\* Mutant of DispatchNext: the loop takes the options from the end of the
\* list.
DispatchNext_Reversed(g, script, piece) ==
    IF g.i < Len(g.activeOptions)
      THEN LET option == g.activeOptions[Len(g.activeOptions) - g.i]
               status == Progress(g, [step |-> g.currentStep + 1, what |-> "section",
                                      label |-> option.id])
           IN  /\ gen' = [g EXCEPT !.pc = "section", !.i = g.i + 1,
                                   !.currentStep = g.currentStep + 1,
                                   !.fullScript = script]
               /\ generationStatus' = status
               /\ progressLog' = Append(progressLog, status)
               /\ calls' = Append(SettleLast(calls, "resolved", piece),
                                  GatewayCall("section", option, prompt))
      ELSE LET status == Progress(g, [step |-> g.totalSteps, what |-> "footer",
                                      label |-> ""])
           IN  /\ gen' = [g EXCEPT !.pc = "footer",
                                   !.currentStep = g.currentStep + 1,
                                   !.fullScript = script]
               /\ generationStatus' = status
               /\ progressLog' = Append(progressLog, status)
               /\ calls' = Append(SettleLast(calls, "resolved", piece),
                                  GatewayCall("footer", NoOption, prompt))

\* The for loop reaches its next option, or the footer step; `piece` is what
\* the call before resolved with.
DispatchNext(g, script, piece) ==
    IF g.i < Len(g.activeOptions)
      THEN LET option == g.activeOptions[g.i + 1]
               status == Progress(g, [step |-> g.currentStep + 1, what |-> "section",
                                      label |-> option.id])
           IN  /\ gen' = [g EXCEPT !.pc = "section", !.i = g.i + 1,
                                   !.currentStep = g.currentStep + 1,
                                   !.fullScript = script]
               /\ generationStatus' = status
               /\ progressLog' = Append(progressLog, status)
               /\ calls' = Append(SettleLast(calls, "resolved", piece),
                                  GatewayCall("section", option, prompt))
      ELSE LET status == Progress(g, [step |-> g.totalSteps, what |-> "footer",
                                      label |-> ""])
           IN  /\ gen' = [g EXCEPT !.pc = "footer",
                                   !.currentStep = g.currentStep + 1,
                                   !.fullScript = script]
               /\ generationStatus' = status
               /\ progressLog' = Append(progressLog, status)
               /\ calls' = Append(SettleLast(calls, "resolved", piece),
                                  GatewayCall("footer", NoOption, prompt))

\* Mutant of RunFails: the catch block reports its own message.
RunFails_OwnMessage(message) ==
    /\ error' = UnknownError("script generation")
    /\ generationStatus' = NullStatus
    /\ isLoading' = FALSE
    /\ gen' = [gen EXCEPT !.pc = "idle", !.outcome = "Failed"]
    /\ calls' = SettleLast(calls, "failed", message)
    /\ UNCHANGED <<generatedScript, progressLog>>

\* Mutant of RunFails: the finally block is missing.
RunFails_NoFinally(message) ==
    /\ error' = message
    /\ gen' = [gen EXCEPT !.pc = "idle", !.outcome = "Failed"]
    /\ calls' = SettleLast(calls, "failed", message)
    /\ UNCHANGED <<generatedScript, progressLog, generationStatus, isLoading>>

\* catch and finally
RunFails(message) ==
    /\ error' = message
    /\ generationStatus' = NullStatus
    /\ isLoading' = FALSE
    /\ gen' = [gen EXCEPT !.pc = "idle", !.outcome = "Failed"]
    /\ calls' = SettleLast(calls, "failed", message)
    /\ UNCHANGED <<generatedScript, progressLog>>

\* The header call settles: lines 202-204, then the loop or the footer step.
HeaderSettles ==
    /\ gen.pc = "header"
    /\ \E remote \in PipelineResults(calls[Len(calls)]) :
          LET r == callApi(hasKey, remote)
              fullScript == WithPiece(gen.fullScript, r.value)
          IN  IF r.ok
                THEN /\ generatedScript' = fullScript
                     /\ DispatchNext(gen, fullScript, r.value)
                     /\ UNCHANGED <<error, isLoading>>
                ELSE RunFails(r.value)
    /\ UNCHANGED <<lastActiveOptions, isRebootRecommended, runsLeft>>
    /\ UNCHANGED <<selVars, inputVars, shownVars, impVars, envVars, histVars, gwVars, anaVars>>

\* A section call settles: lines 209-211, then the next option or the footer step.
SectionSettles ==
    /\ gen.pc = "section"
    /\ \E remote \in PipelineResults(calls[Len(calls)]) :
          LET r == callApi(hasKey, remote)
              fullScript == WithPiece(gen.fullScript, r.value)
          IN  IF r.ok
                THEN /\ generatedScript' = fullScript
                     /\ DispatchNext(gen, fullScript, r.value)
                     /\ UNCHANGED <<error, isLoading>>
                ELSE RunFails(r.value)
    /\ UNCHANGED <<lastActiveOptions, isRebootRecommended, runsLeft>>
    /\ UNCHANGED <<selVars, inputVars, shownVars, impVars, envVars, histVars, gwVars, anaVars>>

\* The footer call settles: lines 216-218, then finally.
FooterSettles ==
    /\ gen.pc = "footer"
    /\ \E remote \in PipelineResults(calls[Len(calls)]) :
          LET r == callApi(hasKey, remote)
              fullScript == WithFooter(gen.fullScript, r.value)
          IN  IF r.ok
                THEN /\ generatedScript' = fullScript
                     /\ gen' = [gen EXCEPT !.pc = "idle", !.outcome = "Complete",
                                           !.fullScript = fullScript]
                     /\ calls' = SettleLast(calls, "resolved", r.value)
                     /\ isLoading' = FALSE
                     /\ generationStatus' = NullStatus
                     /\ UNCHANGED <<error, progressLog>>
                ELSE RunFails(r.value)
    /\ UNCHANGED <<lastActiveOptions, isRebootRecommended, runsLeft>>
    /\ UNCHANGED <<selVars, inputVars, shownVars, impVars, envVars, histVars, gwVars, anaVars>>

(***************************************************************************)
(* Improvement loop: handleRunShellcheck and runShellcheckAndLearn.        *)
(***************************************************************************)
ValidationError ==
    <<"A", "valid", "script", "with", "a", "shebang", "must", "be", "generated">>

InvalidImprovementResponse ==
    [isError |-> TRUE,
     message |-> <<"Invalid", "Response:", "The", "script", "improvement", "data",
                   "from", "the", "API", "was", "malformed">>]

\* An entry of refinedPrompts.  An entry that is not an object (null) makes
\* the read of refined.id throw.
Refined(id, newPrompt) == [id |-> id, newPrompt |-> newPrompt, isObject |-> TRUE]
NullEntry == [id |-> "", newPrompt |-> <<>>, isObject |-> FALSE]

\* The refinedPrompts lists the remote answers with: none, one of a leaf of
\* the request, one of an id held by two catalog objects, one of an id that
\* is no catalog option, an empty new prompt, and a list with a null entry.
RefinedLists ==
    { <<>>,
      <<Refined("updates", <<"P1", "updates">>)>>,
      <<Refined("systemAndPackages", <<"P1", "systemAndPackages">>)>>,
      <<Refined("custom", <<"P1", "custom">>)>>,
      <<Refined("updates", <<>>)>>,
      <<Refined("kernel", <<"P1", "kernel">>), NullEntry>> }

\* The parsed response: its three fields, and the names of those the JSON
\* text lacks.
ImprovementJson(script, refined, summary, missing) ==
    [kind |-> "json", correctedScript |-> script, refinedPrompts |-> refined,
     improvementSummary |-> summary, summaryIsArray |-> TRUE, missing |-> missing,
     error |-> InvalidImprovementResponse]

CorrectedText == <<FENCE, "sh", NL, "#", "!", "c", NL, FENCE>>

\* What ai.models.generateContent can do for an improvement request.
ImproveResults ==
    {ImprovementJson(CorrectedText, l, <<"quoted">>, {}) : l \in RefinedLists}
    \cup { [ImprovementJson(CorrectedText, <<>>, <<>>, {}) EXCEPT !.summaryIsArray = FALSE],
           ImprovementJson(CorrectedText, <<>>, <<"quoted">>, {"refinedPrompts"}),
           ImprovementJson(<<>>, <<>>, <<"quoted">>, {"correctedScript"}),
           [kind |-> "text", error |-> InvalidImprovementResponse] }
    \cup {RemoteThrow(e) :
            e \in {x \in RemoteErrors : x.message \in {<<"Rate", "limit", "reached">>, <<>>}}}

\* runShellcheckAndLearn: what the promise settles to.
runShellcheckAndLearn(key, remote) ==
    IF ~key
      THEN [ok |-> FALSE, value |-> ConfigurationError, dispatched |-> FALSE]
    ELSE IF remote.kind = "json" /\ "correctedScript" \notin remote.missing
      THEN [ok |-> TRUE, dispatched |-> TRUE,
            value |-> [correctedScript |-> cleanScriptOutput(remote.correctedScript),
                       improvementSummary |->
                           IF remote.summaryIsArray THEN remote.improvementSummary
                           ELSE <<>>,
                       refinedPrompts |-> remote.refinedPrompts,
                       hasRefinedPrompts |-> "refinedPrompts" \notin remote.missing]]
    ELSE [ok |-> FALSE, value |-> handleApiError(remote.error, "script improvement"),
          dispatched |-> TRUE]

\* activeOptions.map(opt => ({ id: opt.id, prompt: opt.prompt }))
OriginalPrompts(options, prompts) ==
    [k \in DOMAIN options |->
        [id |-> options[k].id, prompt |-> PromptOf(options[k], prompts)]]

\* Mutant of ApplyRefined: the ids are recorded, the prompts are not written.
RECURSIVE ApplyRefined_IdsOnly(_, _, _)
ApplyRefined_IdsOnly(refinedPrompts, prompts, ids) ==
    IF refinedPrompts = <<>> THEN [prompt |-> prompts, ids |-> ids, threw |-> FALSE]
    ELSE LET refined == Head(refinedPrompts)
         IN  IF ~refined.isObject
               THEN [prompt |-> prompts, ids |-> ids, threw |-> TRUE]
             ELSE IF refined.id \in Ids
               THEN ApplyRefined_IdsOnly(Tail(refinedPrompts), prompts,
                                         ids \cup {refined.id})
             ELSE ApplyRefined_IdsOnly(Tail(refinedPrompts), prompts, ids)

\* Mutant of ApplyRefined: the new set starts empty at every entry.
RECURSIVE ApplyRefined_Forgetful(_, _, _)
ApplyRefined_Forgetful(refinedPrompts, prompts, ids) ==
    IF refinedPrompts = <<>> THEN [prompt |-> prompts, ids |-> ids, threw |-> FALSE]
    ELSE LET refined == Head(refinedPrompts)
         IN  IF ~refined.isObject
               THEN [prompt |-> prompts, ids |-> ids, threw |-> TRUE]
             ELSE IF refined.id \in Ids
               THEN ApplyRefined_Forgetful(Tail(refinedPrompts),
                                           [prompts EXCEPT ![refined.id] = refined.newPrompt],
                                           {refined.id})
             ELSE ApplyRefined_Forgetful(Tail(refinedPrompts), prompts, ids)

\* Mutant of ApplyRefined: find() takes the first option whatever the id.
RECURSIVE ApplyRefined_FirstOption(_, _, _)
ApplyRefined_FirstOption(refinedPrompts, prompts, ids) ==
    IF refinedPrompts = <<>> THEN [prompt |-> prompts, ids |-> ids, threw |-> FALSE]
    ELSE LET refined == Head(refinedPrompts)
             first == allOptionsFromLevels[1].id
         IN  IF ~refined.isObject
               THEN [prompt |-> prompts, ids |-> ids, threw |-> TRUE]
             ELSE ApplyRefined_FirstOption(Tail(refinedPrompts),
                                           [prompts EXCEPT ![first] = refined.newPrompt],
                                           ids \cup {refined.id})

\* result.refinedPrompts.forEach(...), up to the entry that throws.
RECURSIVE ApplyRefined(_, _, _)
ApplyRefined(refinedPrompts, prompts, ids) ==
    IF refinedPrompts = <<>> THEN [prompt |-> prompts, ids |-> ids, threw |-> FALSE]
    ELSE LET refined == Head(refinedPrompts)
         IN  IF ~refined.isObject
               THEN [prompt |-> prompts, ids |-> ids, threw |-> TRUE]
             ELSE IF refined.id \in Ids
               THEN ApplyRefined(Tail(refinedPrompts),
                                 [prompts EXCEPT ![refined.id] = refined.newPrompt],
                                 ids \cup {refined.id})
             ELSE ApplyRefined(Tail(refinedPrompts), prompts, ids)

\* Mutant of HasShebang: every script passes.
HasShebang_Always(script) == script = script

\* The negation of the test at line 253:
\* !script.trim() || !script.trim().startsWith('#!')
HasShebang(script) ==
    ~(Trim(script) = <<>> \/ ~StartsWith(Trim(script), <<"#", "!">>))

\* Mutant of LearnableOptions: nothing is filtered out.
LearnableOptions_All(options) == options

\* lastActiveOptions.filter(opt => opt.id !== 'custom')
LearnableOptions(options) == SelectSeq(options, LAMBDA o : o.id # "custom")

\* Mutant of HasRefinements: the branch is taken for every list.
HasRefinements_Always(refinedPrompts) == refinedPrompts = refinedPrompts

\* result.refinedPrompts.length > 0
HasRefinements(refinedPrompts) == Len(refinedPrompts) > 0

\* A request sent to runShellcheckAndLearn: its two arguments, and what
\* became of it: in flight, done (the handler ran to its end), or failed
\* (the catch block ran); the refinedPrompts it returned, and the number of
\* generation runs left when it settled.
ImproveRequest(script, options, prompts) ==
    [originalScript |-> script, originalPrompts |-> OriginalPrompts(options, prompts),
     state |-> "inflight", refinedPrompts |-> <<>>, runsLeft |-> 0]

SettleRequest(log, state, refinedPrompts, runs) ==
    [log EXCEPT ![Len(log)].state = state,
                ![Len(log)].refinedPrompts = refinedPrompts,
                ![Len(log)].runsLeft = runs]

\* The click on the improve button: lines 253-265, up to the await.
handleRunShellcheck ==
    /\ ~isImproving
    /\ generatedScript # <<>>
    /\ improvesLeft > 0
    /\ IF ~HasShebang(generatedScript)
         THEN /\ improvingError' = ValidationError
              /\ UNCHANGED <<isImproving, shownVars, imp, improveLog, improvesLeft>>
         ELSE /\ isImproving' = TRUE
              /\ improvingError' = Null
              /\ improvedScript' = <<>>
              /\ improvementSummary' = <<>>
              /\ imp' = [pc |-> "await", improvedPromptIds |-> improvedPromptIds,
                         runsLeft |-> runsLeft]
              /\ improveLog' =
                    IF hasKey
                      THEN Append(improveLog,
                                  ImproveRequest(generatedScript,
                                                 LearnableOptions(lastActiveOptions),
                                                 prompt))
                      ELSE improveLog
              /\ improvesLeft' = improvesLeft - 1
    /\ UNCHANGED <<improvedPromptIds, showImprovementSuccess>>
    /\ UNCHANGED <<selVars, inputVars, genVars, envVars, histVars, gwVars, anaVars>>

\* The improvement request settles: lines 266-291.
ImproveSettles ==
    /\ imp.pc = "await"
    /\ \E remote \in ImproveResults :
          LET r == runShellcheckAndLearn(hasKey, remote)
              applied == ApplyRefined(r.value.refinedPrompts, prompt,
                                      imp.improvedPromptIds)
              done == r.ok /\ r.value.hasRefinedPrompts
                          /\ (HasRefinements(r.value.refinedPrompts) => ~applied.threw)
          IN  /\ improveLog' =
                    IF hasKey
                      THEN SettleRequest(improveLog, IF done THEN "done" ELSE "failed",
                                         IF r.ok THEN r.value.refinedPrompts ELSE <<>>,
                                         runsLeft)
                      ELSE improveLog
              /\ IF ~r.ok
                   THEN /\ improvingError' = r.value
                        /\ UNCHANGED <<shownVars, prompt, improvedPromptIds,
                                       showImprovementSuccess>>
                 ELSE /\ improvedScript' = r.value.correctedScript
                      /\ improvementSummary' = r.value.improvementSummary
                      /\ IF ~r.value.hasRefinedPrompts
                           THEN /\ improvingError' = TypeErrorThrown.message
                                /\ UNCHANGED <<prompt, improvedPromptIds,
                                               showImprovementSuccess>>
                         ELSE IF ~HasRefinements(r.value.refinedPrompts)
                           THEN UNCHANGED <<improvingError, prompt, improvedPromptIds,
                                            showImprovementSuccess>>
                         ELSE /\ showImprovementSuccess' = TRUE
                              /\ prompt' = applied.prompt
                              /\ IF applied.threw
                                   THEN /\ improvingError' = TypeErrorThrown.message
                                        /\ UNCHANGED improvedPromptIds
                                   ELSE /\ improvedPromptIds' = applied.ids
                                        /\ UNCHANGED improvingError
    /\ isImproving' = FALSE
    /\ imp' = IdleImp
    /\ UNCHANGED <<improvesLeft, hasKey>>
    /\ UNCHANGED <<selVars, inputVars, genVars, histVars, gwVars, anaVars>>

\* The timer of the effect at lines 94-99 fires.
DismissImprovementSuccess ==
    /\ showImprovementSuccess
    /\ showImprovementSuccess' = FALSE
    /\ UNCHANGED <<isImproving, improvingError, improvedPromptIds, imp, improveLog,
                   improvesLeft>>
    /\ UNCHANGED <<selVars, inputVars, genVars, shownVars, envVars, histVars, gwVars, anaVars>>

(***************************************************************************)
(* Output analysis: handleAnalyzeOutput.                                   *)
(***************************************************************************)
\* onChange of the textarea of the advanced tab
setScriptOutput(value) ==
    /\ scriptOutput # value
    /\ scriptOutput' = value
    /\ UNCHANGED <<analysisResult, analysisError, isAnalyzing, ana>>
    /\ UNCHANGED <<selVars, inputVars, genVars, shownVars, impVars, envVars, histVars, gwVars>>

\* The click on the analyze button (disabled={isAnalyzing}): lines 232-240,
\* up to the await.
handleAnalyzeOutput ==
    /\ ~isAnalyzing
    /\ ana.left > 0
    /\ IF Trim(scriptOutput) = <<>>
         THEN /\ analysisError' = <<"Please", "paste", "the", "script", "output">>
              /\ ana' = [ana EXCEPT !.left = @ - 1]
              /\ UNCHANGED <<analysisResult, isAnalyzing>>
         ELSE /\ isAnalyzing' = TRUE
              /\ analysisError' = Null
              /\ analysisResult' = JsNull
              /\ ana' = [pc |-> "await", called |-> ana.called + 1, left |-> ana.left - 1]
    /\ UNCHANGED scriptOutput
    /\ UNCHANGED <<selVars, inputVars, genVars, shownVars, impVars, envVars, histVars, gwVars>>

\* The analysis request settles: lines 241-249.
AnalyzeSettles ==
    /\ ana.pc = "await"
    /\ \E remote \in AnalysisResults :
          LET r == analyzeScriptOutput(hasKey, remote)
          IN  IF r.ok
                THEN /\ analysisResult' = r.value
                     /\ UNCHANGED analysisError
                ELSE /\ analysisError' = r.value
                     /\ UNCHANGED analysisResult
    /\ isAnalyzing' = FALSE
    /\ ana' = [ana EXCEPT !.pc = "idle"]
    /\ UNCHANGED scriptOutput
    /\ UNCHANGED <<selVars, inputVars, genVars, shownVars, impVars, envVars, histVars, gwVars>>

(***************************************************************************)
(* The gateway operations called on their own: one call, and what its      *)
(* promise settles to.                                                     *)
(***************************************************************************)
Alphabet == {FENCE, "bash", NL, "x"}

TextsUpTo(n) == UNION {[1..k -> Alphabet] : k \in 0..n}

\* No operation of the gateway has been called yet.
NotCalled == gw.op = "none"

\* What the remote can do for a generation request.
GenerationResults ==
    {RemoteText(t) : t \in TextsUpTo(MaxLen)}
    \cup {RemoteNoText}
    \cup {RemoteThrow(e) : e \in RemoteErrors}

Settled(op, remote, result) ==
    /\ gw' = [op |-> op, remote |-> remote, result |-> result]
    /\ UNCHANGED <<selVars, inputVars, genVars, shownVars, impVars, envVars, histVars,
                   anaVars>>

CallHeader ==
    /\ NotCalled
    /\ \E remote \in GenerationResults :
           Settled("header", remote, generateScriptHeaderAndHelpers(hasKey, remote))

CallSection ==
    /\ NotCalled
    /\ \E remote \in GenerationResults :
           Settled("section", remote, generateScriptSection(hasKey, remote))

CallFooter ==
    /\ NotCalled
    /\ \E remote \in GenerationResults :
           Settled("footer", remote, generateScriptFooter(hasKey, remote))

CallAnalyze ==
    /\ NotCalled
    /\ \E remote \in AnalysisResults :
           Settled("analyze", remote, analyzeScriptOutput(hasKey, remote))

CallImprove ==
    /\ NotCalled
    /\ \E remote \in ImproveResults \cup {RemoteThrow(e) : e \in RemoteErrors} :
           Settled("improve", remote, runShellcheckAndLearn(hasKey, remote))

(***************************************************************************)
(* Specifications.                                                         *)
(***************************************************************************)
\* The state after the first render, with the steps a behaviour may take.
StartApp(toggles, edits, runs, improves, analyses) ==
    /\ selectedOptions = initialSelections
    /\ customPrompt = <<>>
    /\ customExclusions = <<>>
    /\ generatedScript = <<>>
    /\ isLoading = FALSE
    /\ error = Null
    /\ generationStatus = NullStatus
    /\ lastActiveOptions = <<>>
    /\ isRebootRecommended = FALSE
    /\ prompt = [id \in Ids |-> idToOptionMap[id].prompt]
    /\ hasKey \in BOOLEAN
    /\ gen = IdleGen
    /\ calls = <<>>
    /\ progressLog = <<>>
    /\ togglesLeft = toggles
    /\ editsLeft = edits
    /\ runsLeft = runs
    /\ lastToggle = [id |-> NoId, isChecked |-> FALSE]
    /\ isImproving = FALSE
    /\ improvingError = Null
    /\ improvedScript = <<>>
    /\ improvementSummary = <<>>
    /\ improvedPromptIds = {}
    /\ showImprovementSuccess = FALSE
    /\ imp = IdleImp
    /\ improveLog = <<>>
    /\ improvesLeft = improves
    /\ gw = IdleGw
    /\ scriptOutput = <<>>
    /\ analysisResult = JsNull
    /\ analysisError = Null
    /\ isAnalyzing = FALSE
    /\ ana = [pc |-> "idle", called |-> 0, left |-> analyses]

\* The same, for the behaviours that make no analysis request.
Start(toggles, edits, runs, improves) == StartApp(toggles, edits, runs, improves, 0)

Init == Start(MaxToggles, MaxEdits, MaxRuns, 0)

Toggle ==
    \E id \in Ids :
        /\ handleOptionChange(id)
        /\ lastToggle' = [id |-> id, isChecked |-> ~Sel(selectedOptions, id)]

\* The checkboxes clicked in the runs of the pipeline: a leaf that requires
\* a reboot, its parent, and a parent whose id two levels share.
PipelineIds == {"kernel", "systemInternals", "systemAndPackages"}

ToggleSome ==
    \E id \in PipelineIds : handleOptionChange(id) /\ UNCHANGED lastToggle

EditPrompt == \E value \in PromptInputs : setCustomPrompt(value)

EditExclusions == \E value \in ExclusionInputs : setCustomExclusions(value)

\* The selection state engine alone.
NextSel == Toggle

SpecSel == Init /\ [][NextSel]_vars

\* handleOptionChange called with any string: the ids of the catalog and an
\* id that no option has.
UnknownId == "unknown"

ToggleAny ==
    \E id \in Ids \cup {UnknownId} :
        /\ handleOptionChange(id)
        /\ lastToggle' = [id |-> id, isChecked |-> ~Sel(selectedOptions, id)]

NextAny == ToggleAny

SpecAny == Init /\ [][NextAny]_vars

\* Clicks on the checkboxes of two groups of level 2, of their children and
\* of 'updates' and 'bindCheck'; lastToggle keeps the selection state before
\* the click, and whether the click before was on the same checkbox.
ToggleTwice ==
    \E id \in {"systemAndPackages", "updates", "autoUpdates", "dnfSecurity",
               "systemInternals", "kernel", "selinux", "bindCheck"} :
        /\ handleOptionChange(id)
        /\ lastToggle' = [id |-> id, isChecked |-> ~Sel(selectedOptions, id),
                          prev |-> selectedOptions, twice |-> lastToggle.id = id]

SpecTwice == Start(MaxTwice, 0, 0, 0) /\ [][ToggleTwice]_vars

Next ==
    \/ ToggleSome
    \/ EditPrompt
    \/ EditExclusions
    \/ handleGenerateScript
    \/ HeaderSettles
    \/ SectionSettles
    \/ FooterSettles

Spec == Init /\ [][Next]_vars

\* Generation runs with improvement runs between and during them.
InitLearn == Start(MaxLearnToggles, MaxLearnEdits, MaxLearnRuns, MaxImproves)

\* The checkboxes clicked there: a leaf, and the parent whose id two levels
\* share.
LearnIds == {"updates", "systemAndPackages"}

ToggleLearn ==
    \E id \in LearnIds : handleOptionChange(id) /\ UNCHANGED lastToggle

\* The custom request typed there.
EditLearn == setCustomPrompt(<<SP, "c">>)

NextLearn ==
    \/ ToggleLearn
    \/ EditLearn
    \/ handleGenerateScript
    \/ HeaderSettles
    \/ SectionSettles
    \/ FooterSettles
    \/ handleRunShellcheck
    \/ ImproveSettles
    \/ DismissImprovementSuccess

SpecLearn == InitLearn /\ [][NextLearn]_vars

\* Generation runs one after the other.
InitRuns == Start(MaxToggles, 0, MaxRepeatRuns, 0)

NextRuns ==
    \/ ToggleSome
    \/ handleGenerateScript
    \/ HeaderSettles
    \/ SectionSettles
    \/ FooterSettles

SpecRuns == InitRuns /\ [][NextRuns]_vars

\* The same, when every dispatched call of the gateway settles: the promise
\* of a call in flight resolves or rejects.
SpecRunsFair ==
    /\ SpecRuns
    /\ WF_vars(HeaderSettles)
    /\ WF_vars(SectionSettles)
    /\ WF_vars(FooterSettles)

\* Analysis requests one after the other, with the output text empty, blank
\* or pasted.
SpecAnalyze ==
    /\ StartApp(0, 0, 0, 0, MaxAnalyses)
    /\ [][ \/ \E value \in {<<>>, <<SP>>, <<"o">>} : setScriptOutput(value)
           \/ handleAnalyzeOutput
           \/ AnalyzeSettles ]_vars

\* Improvement runs one after the other on the script of one generation run.
InitRelearn == Start(MaxRuns, 0, MaxRuns, MaxRelearns)

NextRelearn ==
    \/ ToggleLearn
    \/ handleGenerateScript
    \/ HeaderSettles
    \/ SectionSettles
    \/ FooterSettles
    \/ handleRunShellcheck
    \/ ImproveSettles
    \/ DismissImprovementSuccess

SpecRelearn == InitRelearn /\ [][NextRelearn]_vars

\* The gateway alone: one operation is called, with or without a credential.
InitGateway == Start(0, 0, 0, 0)

NextGateway ==
    \/ CallHeader
    \/ CallSection
    \/ CallFooter
    \/ CallAnalyze
    \/ CallImprove

SpecGateway == InitGateway /\ [][NextGateway]_vars

(***************************************************************************)
(* Properties of the selection state engine (SpecSel).                     *)
(***************************************************************************)
RECURSIVE LevelOptions(_)
LevelOptions(levels) ==
    IF levels = <<>> THEN <<>>
    ELSE getAllOptionsRecursively(Head(levels).options) \o LevelOptions(Tail(levels))

\* Every option object of the catalog tree, in traversal order.
CatalogOptions == LevelOptions(PARANOIA_LEVELS)

AllChildrenSelected(option) ==
    \A i \in DOMAIN option.subOptions : Sel(selectedOptions, option.subOptions[i].id)

\* C1: after any sequence of toggles from the all-deselected state, every
\* option of the catalog that has children is selected if and only if all
\* of its direct children are selected.
C1_ParentIffAllChildren ==
    \A k \in DOMAIN CatalogOptions :
        HasSub(CatalogOptions[k]) =>
            (Sel(selectedOptions, CatalogOptions[k].id)
                <=> AllChildrenSelected(CatalogOptions[k]))

\* C2: a toggle of an option that has children leaves every descendant of
\* that option in the catalog tree with the value the toggled option
\* received.
C2_CascadeReachesEveryDescendant ==
    \A k \in DOMAIN CatalogOptions :
        LET option == CatalogOptions[k]
            descendants == getAllOptionsRecursively(option.subOptions)
        IN  (option.id = lastToggle.id /\ HasSub(option)) =>
                \A d \in DOMAIN descendants :
                    Sel(selectedOptions, descendants[d].id) = lastToggle.isChecked

(***************************************************************************)
(* Properties of the script assembly pipeline (Spec).                      *)
(***************************************************************************)
RunEnded == gen.pc = "idle" /\ gen.outcome \in {"Complete", "Failed"}

Steps == Len(lastActiveOptions)

\* C3: the gateway calls of a run are dispatched one at a time: the header
\* first, then one section call per active option in the order of the active
\* option list, then the footer once; a call is dispatched only when every
\* call before it has resolved, and a complete run made all of them.
C3_CallsSequentialInOrder ==
    /\ Len(calls) <= Steps + 2
    /\ Cardinality({k \in DOMAIN calls : calls[k].state = "inflight"}) <= 1
    /\ \A k \in DOMAIN calls :
          /\ k < Len(calls) => calls[k].state = "resolved"
          /\ k = 1 => calls[k].op = "header"
          /\ k \in 2..(Steps + 1) =>
                calls[k].op = "section" /\ calls[k].id = lastActiveOptions[k - 1].id
          /\ k = Steps + 2 => calls[k].op = "footer"
    /\ gen.outcome = "Complete" =>
          /\ Len(calls) = Steps + 2
          /\ \A k \in DOMAIN calls : calls[k].state = "resolved"

C3_Witness ==
    /\ gen.outcome = "Complete"
    /\ Steps >= 3
    /\ calls[Len(calls)].op = "footer"

\* The messages a generation operation of the gateway fails with.
GenerationFailures ==
    { ConfigurationError, AuthenticationError, NetworkError, RateLimitError,
      GenericApiError("script generation"), UnknownError("script generation") }

\* C4: when a step of a run fails, that call is the last call of the run (no
\* further call, no retry), and the run has ended with the running flag
\* cleared and the error equal to the message the gateway failed with.
C4_FailureAbortsWithGatewayMessage ==
    /\ \A k \in DOMAIN calls :
          calls[k].state = "failed" => k = Len(calls) /\ gen.outcome = "Failed"
    /\ gen.outcome = "Failed" =>
          /\ RunEnded
          /\ ~isLoading
          /\ calls[Len(calls)].state = "failed"
          /\ error = calls[Len(calls)].result
          /\ error \in GenerationFailures

C4_Witness ==
    /\ gen.outcome = "Failed"
    /\ Len(calls) = 2
    /\ Steps >= 2
    /\ error = NetworkError

\* C5: when a run has ended, the current script is the complete script with
\* no error, or there is an error and no script: the script accumulated by a
\* failed run is not left as the current generated script.
C5_AllOrNothing ==
    RunEnded =>
        \/ gen.outcome = "Complete" /\ error = Null /\ generatedScript = gen.fullScript
        \/ gen.outcome = "Failed" /\ error # Null /\ generatedScript = <<>>

RECURSIVE JoinResults(_, _)
\* r1 + "\n\n" + ... + rk + "\n\n", for the results of the first k calls
JoinResults(log, k) ==
    IF k = 0 THEN <<>> ELSE JoinResults(log, k - 1) \o log[k].result \o <<NL, NL>>

\* C6: the script of a complete run is H + "\n\n" + S1 + "\n\n" + ... + Sn
\* + "\n\n" + F + "\n" for the texts the n+2 calls resolved with, and the run
\* made exactly n+2 gateway calls.
C6_FinalScriptIsJoin ==
    gen.outcome = "Complete" =>
        /\ Len(calls) = Steps + 2
        /\ generatedScript =
              JoinResults(calls, Steps + 1) \o calls[Steps + 2].result \o <<NL>>

C6_Witness ==
    /\ gen.outcome = "Complete"
    /\ Steps = 2
    /\ generatedScript =
          <<"#", "!", "h", NL, NL, "s:", "kernel", NL, NL, "s:", "custom", NL, NL,
            "f", NL>>

\* The prompt field of a catalog object, now: the objects that idToOptionMap
\* holds are the ones whose prompt the improvement loop writes.
ObjectPrompt(option, prompts) ==
    IF option.obj = idToOptionMap[option.id].obj THEN prompts[option.id]
    ELSE option.prompt

\* The ids of the catalog options that are selected and have a non-empty
\* prompt, in the order of the traversal of the catalog, then 'custom' when
\* the free text is non-empty after trimming.
ExpectedActiveIds(sel, prompts, cp) ==
    LET chosen == SelectSeq(CatalogOptions,
                            LAMBDA o : Sel(sel, o.id) /\ ObjectPrompt(o, prompts) # <<>>)
    IN  [k \in DOMAIN chosen |-> chosen[k].id]
        \o (IF Trim(cp) # <<>> THEN <<"custom">> ELSE <<>>)

IdsOf(options) == [k \in DOMAIN options |-> options[k].id]

\* C7: the active option set of a generation run is the selected catalog
\* options with a non-empty prompt, in catalog traversal order, followed by
\* 'custom' as the last element iff the trimmed free text is non-empty.
C7_ActiveSetInTraversalOrder ==
    [][runsLeft' < runsLeft =>
          IdsOf(lastActiveOptions') =
              ExpectedActiveIds(selectedOptions, prompt, customPrompt)]_vars

\* C8 as stated: the total is the number of active options plus 2 and every
\* notification of the run carries an index between 1 and the total that
\* rises by 1 from one notification to the next, the footer reporting the
\* total.
C8_EveryIndexOneBased ==
    \A k \in DOMAIN progressLog :
        /\ progressLog[k].totalSteps = Steps + 2
        /\ progressLog[k].currentStep \in 1..(Steps + 2)
        /\ k > 1 => progressLog[k].currentStep = progressLog[k - 1].currentStep + 1
        /\ progressLog[k].message.what = "footer" =>
              progressLog[k].currentStep = Steps + 2

\* C8 amended: the total is the number of active options plus 2; the first
\* notification of the run is the initialisation, with index 0; every later
\* notification is one of a step and carries an index between 1 and the
\* total that is 1 more than the index before it, the footer reporting the
\* total.
C8_StepIndexOneBasedAfterInit ==
    \A k \in DOMAIN progressLog :
        /\ progressLog[k].totalSteps = Steps + 2
        /\ k = 1 => /\ progressLog[k].currentStep = 0
                    /\ progressLog[k].message.what = "init"
        /\ k > 1 => /\ progressLog[k].message.what \in {"header", "section", "footer"}
                    /\ progressLog[k].currentStep \in 1..(Steps + 2)
                    /\ progressLog[k].currentStep = progressLog[k - 1].currentStep + 1
                    /\ progressLog[k].message.step = progressLog[k].currentStep
        /\ progressLog[k].message.what = "footer" =>
              progressLog[k].currentStep = Steps + 2
        /\ generationStatus # NullStatus => generationStatus = progressLog[Len(progressLog)]

C8_Witness ==
    /\ progressLog # <<>>
    /\ Steps >= 2
    /\ progressLog[Len(progressLog)].message.what = "footer"
    /\ generationStatus = progressLog[Len(progressLog)]

IsPrefix(a, b) == Len(a) <= Len(b) /\ SubSeq(b, 1, Len(a)) = a

Resolved(log) == Cardinality({k \in DOMAIN log : log[k].state = "resolved"})

\* C9: while a run is in progress and k of its calls have resolved, the
\* visible script is the first k pieces, each followed by a blank line; a
\* step of the run changes the visible script only by appending to it.
C9_IncrementalReveal ==
    [][ gen'.outcome = "Running" =>
          /\ generatedScript' = JoinResults(calls', Resolved(calls'))
          /\ gen.outcome = "Running" => IsPrefix(generatedScript, generatedScript')
      ]_vars

C9_Witness ==
    /\ gen.outcome = "Running"
    /\ Resolved(calls) = 2
    /\ generatedScript = <<"h", NL, NL, "s:", "kernel", NL, NL>>

\* C10: the reboot-recommended flag a run sets is true if and only if an
\* option of its active option set is flagged reboot-required in the catalog.
RebootFlagged(id) ==
    \E k \in DOMAIN CatalogOptions :
        CatalogOptions[k].id = id /\ CatalogOptions[k].rebootRequired

C10_RebootFlagIffRebootOption ==
    gen.outcome # "None" =>
        (isRebootRecommended
            <=> \E k \in DOMAIN lastActiveOptions : RebootFlagged(lastActiveOptions[k].id))

C10_Witness ==
    /\ gen.outcome = "Complete"
    /\ isRebootRecommended
    /\ \E k \in DOMAIN lastActiveOptions : lastActiveOptions[k].id = "autoUpdates"
    /\ \E k \in DOMAIN lastActiveOptions : lastActiveOptions[k].id = "kernel"

(***************************************************************************)
(* Properties of the gateway (SpecGateway).                                *)
(***************************************************************************)
GenerationOps == {"header", "section", "footer"}

\* The generation operation that was called returned a text.
Returned == gw.op \in GenerationOps /\ gw.result.ok

BeginsWithFence(t) == t # <<>> /\ Head(t) = FENCE
EndsWithFence(t) == t # <<>> /\ t[Len(t)] = FENCE

\* C11: cleaning is idempotent: the text a generation operation returns is
\* left as it is by cleaning it again, and it neither begins nor ends with a
\* fence.
C11_CleanIdempotent ==
    Returned =>
        /\ cleanScriptOutput(gw.result.value) = gw.result.value
        /\ ~BeginsWithFence(gw.result.value)
        /\ ~EndsWithFence(gw.result.value)

\* The length of the leading fence line of a response (the fence, a tag or
\* none, the end of the line), 0 when the response has none.
LeadLine(raw) ==
    IF Len(raw) >= 2 /\ raw[1] = FENCE /\ raw[2] = NL THEN 2
    ELSE IF Len(raw) >= 3 /\ raw[1] = FENCE /\ raw[2] \in {"bash", "sh"} /\ raw[3] = NL
      THEN 3
    ELSE 0

IsFenced(raw) == LeadLine(raw) > 0 /\ Len(raw) > LeadLine(raw) /\ raw[Len(raw)] = FENCE

Body(raw) == SubSeq(raw, LeadLine(raw) + 1, Len(raw) - 1)

\* C12: for a response made of a leading fence line (with or without a
\* language tag), a body and a trailing fence, each of the three generation
\* operations returns the body with the surrounding whitespace trimmed.
C12_FencedResponseYieldsBody ==
    (gw.op \in GenerationOps /\ hasKey /\ gw.remote.kind = "text"
        /\ IsFenced(gw.remote.text)) =>
        /\ gw.result.ok
        /\ gw.result.value = Trim(Body(gw.remote.text))

C12_Witness ==
    /\ gw.op = "section"
    /\ hasKey
    /\ gw.remote.kind = "text"
    /\ gw.remote.text = <<FENCE, "bash", NL, "x", NL, FENCE>>
    /\ gw.result.value = <<"x">>

\* C13: whenever analyzeScriptOutput returns a result, its securityScore is
\* a number between 0 and 100: a value above 100 gives 100, a value below 0
\* gives 0, a missing, null or non-numeric value gives 0.
C13_ScoreAlwaysInRange ==
    (gw.op = "analyze" /\ gw.result.ok) =>
        LET given == gw.remote.securityScore
            score == gw.result.value.securityScore
        IN  /\ score.type = "number"
            /\ score.n \in 0..100
            /\ (given.type = "number" /\ given.n > 100) => score.n = 100
            /\ (given.type = "number" /\ given.n < 0) => score.n = 0
            /\ given.type # "number" => score.n = 0

\* The context handleApiError is called with by each operation.
ContextOf(op) ==
    CASE op = "analyze" -> "output analysis"
      [] op = "improve" -> "script improvement"
      [] OTHER -> "script generation"

\* C14: when the response to analyzeScriptOutput or runShellcheckAndLearn is
\* no JSON, the operation fails with the message that begins with
\* 'Invalid Response:', and not with the generic unexpected-API error.
C14_MalformedResponseReachesCaller ==
    (gw.op \in {"analyze", "improve"} /\ hasKey /\ gw.remote.kind = "text") =>
        /\ ~gw.result.ok
        /\ StartsWith(gw.result.value, <<"Invalid", "Response:">>)
        /\ gw.result.value # GenericApiError(ContextOf(gw.op))

ClassifiedErrors(context) ==
    {AuthenticationError, NetworkError, RateLimitError, GenericApiError(context),
     UnknownError(context)}

\* C15: without a credential each of the five operations fails with the
\* configuration error, dispatches no call to the remote, and the error is
\* not turned into an authentication, network, rate-limit or generic error.
C15_NoCredentialIsConfigurationError ==
    (gw.op # "none" /\ ~hasKey) =>
        /\ ~gw.result.ok
        /\ ~gw.result.dispatched
        /\ gw.result.value = ConfigurationError
        /\ gw.result.value \notin ClassifiedErrors(ContextOf(gw.op))

C15_Witness ==
    /\ gw.op = "footer"
    /\ ~hasKey
    /\ gw.remote.kind = "throw"
    /\ gw.result.value = ConfigurationError

\* The remote call of the operation threw.
RemoteThrew == gw.op # "none" /\ hasKey /\ gw.remote.kind = "throw"

Mentions(thrown, phrases) ==
    thrown.isError /\ \E phrase \in phrases : Includes(toLowerCase(thrown.message), phrase)

AuthPhrases == {<<"api", "key", "not", "valid">>, <<"permission", "denied">>}
NetworkPhrases == {<<"fetch", "failed">>, <<"network">>}
RatePhrases == {<<"resource", "has", "been", "exhausted">>, <<"rate", "limit">>}

\* C16 as stated: a failure of the remote call reaches the caller as the
\* authentication error when its message contains an authentication phrase,
\* as the network error when it contains a network phrase, as the rate-limit
\* error when it contains a rate-limit phrase, as the generic API error
\* otherwise, and never as the raw message.
C16_KindByPhrase ==
    RemoteThrew =>
        LET e == gw.remote.error
            value == gw.result.value
        IN  /\ ~gw.result.ok
            /\ Mentions(e, AuthPhrases) => value = AuthenticationError
            /\ Mentions(e, NetworkPhrases) => value = NetworkError
            /\ Mentions(e, RatePhrases) => value = RateLimitError
            /\ ~Mentions(e, AuthPhrases \cup NetworkPhrases \cup RatePhrases) =>
                  value = GenericApiError(ContextOf(gw.op))
            /\ value # e.message

\* C16 amended: the phrases are looked for in that order in the lower-cased
\* message of a thrown Error, the first kind whose phrase is found is the
\* kind that reaches the caller, and the generic API error is the kind of an
\* Error with none of the phrases; a thrown value that is no Error reaches
\* the caller as the unknown-error message of the operation.  The raw
\* message is never the message that reaches the caller.
C16_KindByFirstPhraseFound ==
    RemoteThrew =>
        LET e == gw.remote.error
            value == gw.result.value
        IN  /\ ~gw.result.ok
            /\ Mentions(e, AuthPhrases) => value = AuthenticationError
            /\ (~Mentions(e, AuthPhrases) /\ Mentions(e, NetworkPhrases)) =>
                  value = NetworkError
            /\ (~Mentions(e, AuthPhrases \cup NetworkPhrases) /\ Mentions(e, RatePhrases)) =>
                  value = RateLimitError
            /\ (e.isError /\ ~Mentions(e, AuthPhrases \cup NetworkPhrases \cup RatePhrases)) =>
                  value = GenericApiError(ContextOf(gw.op))
            /\ ~e.isError => value = UnknownError(ContextOf(gw.op))
            /\ value # e.message

C16_Witness ==
    /\ RemoteThrew
    /\ gw.op = "analyze"
    /\ gw.remote.error.message = <<"Network", "API", "key", "not", "valid">>
    /\ gw.result.value = AuthenticationError

(***************************************************************************)
(* Properties of the improvement loop (SpecLearn).                         *)
(***************************************************************************)
NoShebang(script) == ~StartsWith(Trim(script), <<"#", "!">>)

\* C17: while the current script does not begin with a shebang after
\* trimming, a click on the improve button sets the validation error, and
\* no step calls the gateway or changes the catalog prompts or the
\* improved-id set.
C17_NoShebangNoCall ==
    [][ (NoShebang(generatedScript) /\ ~isImproving) =>
          /\ handleRunShellcheck => improvingError' = ValidationError
          /\ improvingError' \in {improvingError, ValidationError}
          /\ imp' = imp
          /\ improveLog' = improveLog
          /\ isImproving' = isImproving
          /\ prompt' = prompt
          /\ improvedPromptIds' = improvedPromptIds
      ]_vars

C17_Witness ==
    /\ improvingError = ValidationError
    /\ generatedScript # <<>>
    /\ NoShebang(generatedScript)
    /\ hasKey
    /\ improveLog = <<>>
    /\ improvesLeft = MaxImproves

WithoutCustom(ids) == SelectSeq(ids, LAMBDA id : id # "custom")

\* C18: the options of a request sent to runShellcheckAndLearn are the
\* options of lastActiveOptions without 'custom', in the same order; no
\* request holds 'custom' and 'custom' is never in the improved-id set.
C18_CustomNeverLearned ==
    [][ /\ Len(improveLog') > Len(improveLog) =>
              IdsOf(improveLog'[Len(improveLog')].originalPrompts) =
                  WithoutCustom(IdsOf(lastActiveOptions))
        /\ \A k \in DOMAIN improveLog' :
              \A j \in DOMAIN improveLog'[k].originalPrompts :
                  improveLog'[k].originalPrompts[j].id # "custom"
        /\ "custom" \notin improvedPromptIds'
      ]_vars

C18_Witness ==
    /\ improveLog # <<>>
    /\ improveLog[1].state = "done"
    /\ IdsOf(improveLog[1].originalPrompts) = <<"updates">>
    /\ improveLog[1].refinedPrompts = <<Refined("custom", <<"P1", "custom">>)>>
    /\ IdsOf(lastActiveOptions) = <<"updates", "custom">>
    /\ improvedPromptIds = {}

\* A refinement of the same id was returned after entry j of request k.
Overwritten(k, j) ==
    LET id == improveLog[k].refinedPrompts[j].id
    IN  \/ \E i \in DOMAIN improveLog[k].refinedPrompts :
              i > j /\ improveLog[k].refinedPrompts[i].id = id
        \/ \E m \in DOMAIN improveLog :
              /\ m > k
              /\ \E i \in DOMAIN improveLog[m].refinedPrompts :
                    improveLog[m].refinedPrompts[i].id = id

\* C19: after an improvement that ran to its end, for every refined prompt
\* it returned whose id is a catalog option id (and that no later
\* refinement of the same id replaced), the prompt of the option is the new
\* text and the id is in the improved-id set; every section request for that
\* option made by a generation run started afterwards carries the new text.
C19_RefinedPromptsApplied ==
    \A k \in DOMAIN improveLog :
        improveLog[k].state = "done" =>
            \A j \in DOMAIN improveLog[k].refinedPrompts :
                LET refined == improveLog[k].refinedPrompts[j]
                IN  (refined.id \in Ids /\ ~Overwritten(k, j)) =>
                        /\ prompt[refined.id] = refined.newPrompt
                        /\ refined.id \in improvedPromptIds
                        /\ improveLog[k].runsLeft > runsLeft =>
                              \A c \in DOMAIN calls :
                                  (calls[c].op = "section" /\ calls[c].id = refined.id) =>
                                      calls[c].prompt = refined.newPrompt

C19_Witness ==
    /\ improveLog # <<>>
    /\ improveLog[1].state = "done"
    /\ improveLog[1].refinedPrompts = <<Refined("updates", <<"P1", "updates">>)>>
    /\ improveLog[1].runsLeft > runsLeft
    /\ \E c \in DOMAIN calls :
          /\ calls[c].op = "section"
          /\ calls[c].id = "updates"
          /\ calls[c].prompt = <<"P1", "updates">>
          /\ calls[c].state = "resolved"

\* C20: when an improvement runs to its end and returned no refined prompt,
\* the step that ends it changes no catalog prompt, leaves the improved-id
\* set as it is and does not raise the success signal.
C20_NoRefinementsNoChange ==
    [][ (/\ imp.pc = "await"
         /\ imp'.pc = "idle"
         /\ improveLog' # <<>>
         /\ improveLog'[Len(improveLog')].state = "done"
         /\ improveLog'[Len(improveLog')].refinedPrompts = <<>>) =>
            /\ prompt' = prompt
            /\ improvedPromptIds' = improvedPromptIds
            /\ showImprovementSuccess' = showImprovementSuccess
      ]_vars

C20_Witness ==
    /\ improveLog # <<>>
    /\ improveLog[Len(improveLog)].state = "done"
    /\ improveLog[Len(improveLog)].refinedPrompts = <<>>
    /\ improvedScript # <<>>
    /\ ~showImprovementSuccess
    /\ improvedPromptIds = {}
    /\ imp.pc = "idle"

\* The step that ends an improvement run.
ImprovementEnds == imp.pc = "await" /\ imp'.pc = "idle"

\* C21: when an improvement run ends in an error, every catalog prompt and
\* the improved-id set are what they were before the run.
C21_FailedImprovementChangesNothing ==
    [][ (ImprovementEnds /\ improvingError' # Null) =>
            /\ prompt' = prompt
            /\ improvedPromptIds' = improvedPromptIds
      ]_vars

\* C23: the prompt text of every section request of a run is the text the
\* option had when the run built its active option list, also when an
\* improvement has overwritten the prompt of the option since.
C23_SectionPromptIsSnapshot ==
    \A c \in DOMAIN calls :
        calls[c].op = "section" => calls[c].prompt = gen.snapshot[c - 1]

(***************************************************************************)
(* Properties of the catalog and of its two indexes.                       *)
(***************************************************************************)
\* The option objects of the catalog tree that have the id.
NodesOf(id) ==
    {CatalogOptions[k] : k \in {i \in DOMAIN CatalogOptions : CatalogOptions[i].id = id}}

\* C24: no two distinct option objects of the catalog tree have the same
\* id: every id of the selection state is the id of one object, idToOptionMap
\* holds that object, and parentMap holds, for every child of it, its id.
C24_IdsUniqueAcrossTree ==
    \A id \in DOMAIN selectedOptions :
        /\ Cardinality({option.obj : option \in NodesOf(id)}) <= 1
        /\ \A option \in NodesOf(id) :
              /\ idToOptionMap[id].obj = option.obj
              /\ \A c \in DOMAIN option.subOptions :
                    parentMap[option.subOptions[c].id] = id

(***************************************************************************)
(* Properties of handleOptionChange for any id (SpecAny, SpecSel).         *)
(***************************************************************************)
\* The step is a call of handleOptionChange.
Toggled == togglesLeft' < togglesLeft

DescendantIds(id) ==
    UNION { {d.id : d \in {getAllOptionsRecursively(n.subOptions)[k] :
                             k \in DOMAIN getAllOptionsRecursively(n.subOptions)}} :
            n \in NodesOf(id) }

AncestorNodes(id) ==
    {CatalogOptions[k] :
        k \in {i \in DOMAIN CatalogOptions : id \in DescendantIds(CatalogOptions[i].id)}}

\* C29: after a toggle that deselects an option every ancestor of the option
\* is deselected; after a toggle that selects it every ancestor has the
\* logical AND of the values of its own direct children.
C29_AncestorsFollowChildren ==
    \A a \in AncestorNodes(lastToggle.id) :
        IF lastToggle.isChecked
          THEN Sel(selectedOptions, a.id) <=> AllChildrenSelected(a)
          ELSE ~Sel(selectedOptions, a.id)

\* C30: a toggle changes only the entries of the toggled id, of its
\* descendants and of its ancestors: every other entry of the selection
\* state is kept, and no entry is added for another id; a toggle of an id
\* without children and without parent changes the entry of that id only.
C30_OtherEntriesUnchanged ==
    [][ Toggled =>
          LET id == lastToggle'.id
              related == {id} \cup DescendantIds(id) \cup {a.id : a \in AncestorNodes(id)}
          IN  \A k \in (DOMAIN selectedOptions \cup DOMAIN selectedOptions') \ related :
                  /\ k \in DOMAIN selectedOptions
                  /\ k \in DOMAIN selectedOptions'
                  /\ selectedOptions'[k] = selectedOptions[k]
      ]_vars

C30_Witness ==
    /\ lastToggle = [id |-> "kernel", isChecked |-> TRUE]
    /\ togglesLeft = MaxToggles - 2
    /\ Sel(selectedOptions, "kernel")
    /\ Sel(selectedOptions, "updates")
    /\ ~Sel(selectedOptions, "selinux")
    /\ ~Sel(selectedOptions, "systemInternals")

(***************************************************************************)
(* Properties of the runs of the pipeline (SpecRuns, SpecRunsFair, Spec).  *)
(***************************************************************************)
SomethingSelected ==
    \/ \E k \in DOMAIN selectedOptions : selectedOptions[k]
    \/ Trim(customPrompt) # <<>>

\* The disabled attribute of the generate button.
TriggerDisabled ==
    isLoading \/ Len(customPrompt) > MAX_CUSTOM_PROMPT_LENGTH \/ ~SomethingSelected

InFlight(log) == Cardinality({k \in DOMAIN log : log[k].state = "inflight"})

C28_EveryRunEnds ==
    /\ [](RunEnded => (generationStatus = NullStatus /\ ~isLoading))
    /\ (gen.pc # "idle") ~> RunEnded

C28_Witness ==
    /\ RunEnded
    /\ gen.outcome = "Failed"
    /\ runsLeft = MaxRepeatRuns - 2
    /\ gen.i = 1
    /\ generationStatus = NullStatus
    /\ ~isLoading

NothingSelected ==
    /\ \A k \in DOMAIN selectedOptions : ~selectedOptions[k]
    /\ Trim(customPrompt) = <<>>

\* C27: initially every option is deselected and the generate button is
\* disabled; while no option is selected and the free text is empty after
\* trimming, the button is disabled and a request for generation starts no
\* run, dispatches no gateway call and changes nothing of the pipeline (a
\* run that was started before the selection was cleared goes on).
C27_NothingSelectedNothingRuns ==
    /\ (\A k \in DOMAIN selectedOptions : ~selectedOptions[k]) /\ TriggerDisabled
    /\ [][ NothingSelected =>
              /\ TriggerDisabled
              /\ runsLeft' = runsLeft
              /\ gen.pc = "idle" => UNCHANGED genVars
         ]_vars

C27_Witness ==
    /\ NothingSelected
    /\ customPrompt = <<SP>>
    /\ togglesLeft = MaxToggles - 2
    /\ runsLeft = MaxRuns
    /\ calls = <<>>
    /\ ~isLoading

(***************************************************************************)
(* Properties of repeated improvement runs (SpecRelearn).                  *)
(***************************************************************************)
\* The refinements the last improvement request has returned.
Returned25(log) == log[Len(log)].refinedPrompts

AnySelected == \E k \in DOMAIN selectedOptions : selectedOptions[k]

\* The selected options that have a non-empty prompt in prompts.
SelectedWithPrompt(prompts) ==
    {k \in DOMAIN selectedOptions \cap Ids : selectedOptions[k] /\ prompts[k] # <<>>}

\* The prompts of the catalog as constants.ts defines them.
CatalogPrompts == [id \in Ids |-> idToOptionMap[id].prompt]

NoFreeText(options) == \A k \in DOMAIN options : ~options[k].custom

RunStarts == runsLeft' < runsLeft

\* C31 as stated: if any option is selected, an option with a non-empty
\* prompt is selected, and every generation run that starts without
\* free-text input has at least one section step (at least 3 steps).
C31_EveryRunHasASection ==
    /\ AnySelected => SelectedWithPrompt(CatalogPrompts) # {}
    /\ (gen.pc # "idle" /\ NoFreeText(gen.activeOptions)) => gen.totalSteps >= 3

\* C31 amended: if any option is selected, an option whose catalog prompt
\* is non-empty is selected; a generation run that starts without free-text
\* input has at least one section step, unless improvement runs have
\* replaced the prompt of every such selected option by the empty text.
C31_RunHasASectionUnlessEmptied ==
    /\ [](AnySelected => SelectedWithPrompt(CatalogPrompts) # {})
    /\ [][ (RunStarts /\ NoFreeText(gen'.activeOptions)) =>
              \/ gen'.totalSteps >= 3 /\ Len(lastActiveOptions') >= 1
              \/ \A k \in SelectedWithPrompt(CatalogPrompts) : prompt[k] = <<>>
         ]_vars

C31_Witness ==
    /\ runsLeft = MaxLearnRuns - 2
    /\ gen.pc = "section"
    /\ NoFreeText(gen.activeOptions)
    /\ gen.totalSteps >= 3
    /\ improvedPromptIds # {}

\* handleRunShellcheck passes its validation and calls the gateway.
ImproveDispatched == imp.pc = "idle" /\ imp'.pc = "await"

\* C32: the improve call is never dispatched while a generation run is in
\* flight, and the script it sends is the complete script of a run that
\* reached Complete, never a partial script.
C32_ImproveSendsCompleteScript ==
    [][ ImproveDispatched =>
           /\ gen.pc = "idle"
           /\ ~isLoading
           /\ gen.outcome = "Complete"
           /\ generatedScript = gen.fullScript
      ]_vars

\* C33: a corrected script that is set belongs to the current generated
\* script: the improvement run that sets a non-empty corrected script was
\* dispatched in the current generation run, no generation run has started
\* (and cleared the corrected script) since.
C33_StaleImprovementSetsNothing ==
    [][ (ImprovementEnds /\ improvedScript' # <<>>) => imp.runsLeft = runsLeft ]_vars

\* The ids of the entries the improvement requests have returned.
ReturnedIds(log) ==
    UNION {{log[k].refinedPrompts[j].id : j \in DOMAIN log[k].refinedPrompts} :
           k \in DOMAIN log}

\* C34: an id is in the improved-id set if and only if the prompt of its
\* option has been overwritten by an improvement run, also when a run fails
\* midway through the returned entries.
C34_ImprovedIffOverwritten ==
    \A id \in Ids :
        /\ prompt[id] # CatalogPrompts[id] => id \in improvedPromptIds
        /\ id \in improvedPromptIds => id \in ReturnedIds(improveLog)

\* C35: the success signal is raised only by a run that has overwritten at
\* least one catalog prompt: a run whose returned entries all have ids of
\* no catalog option raises none.
C35_SuccessOnlyIfOverwritten ==
    [][ (ImprovementEnds /\ ~showImprovementSuccess /\ showImprovementSuccess') =>
           \E j \in DOMAIN Returned25(improveLog') :
               /\ Returned25(improveLog')[j].isObject
               /\ Returned25(improveLog')[j].id \in Ids
      ]_vars

\* The ids of the learning set the last improvement request has sent.
SentIds(log) ==
    {log[Len(log)].originalPrompts[k].id : k \in DOMAIN log[Len(log)].originalPrompts}

\* The catalog ids of the entries the last improvement request has returned.
NamedIds(log) ==
    {Returned25(log)[j].id : j \in {i \in DOMAIN Returned25(log) : Returned25(log)[i].isObject}}
    \cap Ids

\* The options whose prompt, or whose membership of the improved-id set,
\* the step changes.
Touched ==
    {id \in Ids : \/ prompt'[id] # prompt[id]
                  \/ (id \in improvedPromptIds') # (id \in improvedPromptIds)}

\* C36 as stated: an improvement run overwrites only prompts of options
\* that were in the learning set it sent, and records only their ids.
C36_OnlySentOptionsChange ==
    [][ (ImprovementEnds /\ Touched # {}) => Touched \subseteq SentIds(improveLog') ]_vars

\* C36 amended: an improvement run overwrites only prompts of catalog
\* options that an entry it returned names, in the learning set it sent or
\* not, and records only their ids.
C36_OnlyNamedOptionsChange ==
    [][ (ImprovementEnds /\ Touched # {}) => Touched \subseteq NamedIds(improveLog') ]_vars

\* An entry for an option that was not sent has been applied.
C36_Witness ==
    /\ Len(improveLog) = 1
    /\ improveLog[1].state = "done"
    /\ SentIds(improveLog) = {"updates"}
    /\ NamedIds(improveLog) = {"systemAndPackages"}
    /\ prompt["systemAndPackages"] = <<"P1", "systemAndPackages">>
    /\ improvedPromptIds = {"systemAndPackages"}

(***************************************************************************)
(* Properties of the analysis flow (SpecAnalyze).                          *)
(***************************************************************************)
\* A click on the analyze button is handled.
AnalysisRequested == ana'.left < ana.left

\* C37: an analysis request with empty or whitespace-only output text sets
\* a validation error and calls no gateway operation; and when no analysis
\* request is in progress, the analysis result and the analysis error are
\* never both present.
C37_ResultAndErrorExclusive ==
    /\ [][ (AnalysisRequested /\ Trim(scriptOutput) = <<>>) =>
              /\ analysisError' # Null
              /\ ana'.called = ana.called
              /\ ana'.pc = "idle"
              /\ ~isAnalyzing'
         ]_vars
    /\ [](ana.pc = "idle" => ~(analysisResult # JsNull /\ analysisError # Null))

(***************************************************************************)
(* Properties of repeated toggles (SpecTwice).                             *)
(***************************************************************************)
\* Every catalog option that has children is selected in sel if and only
\* if all its direct children are.
ParentIffAllChildren(sel) ==
    \A k \in DOMAIN CatalogOptions :
        HasSub(CatalogOptions[k]) =>
            (Sel(sel, CatalogOptions[k].id)
                <=> \A i \in DOMAIN CatalogOptions[k].subOptions :
                        Sel(sel, CatalogOptions[k].subOptions[i].id))

\* C38: in a selection state in which every parent is selected if and only
\* if all its children are, the second of two toggles in a row of the same
\* childless option gives back exactly the selection state before the first.
C38_DoubleToggleRestores ==
    [][ (/\ Toggled
         /\ lastToggle.id = lastToggle'.id
         /\ ~HasSub(idToOptionMap[lastToggle.id])
         /\ ParentIffAllChildren(lastToggle.prev)) =>
            selectedOptions' = lastToggle.prev
      ]_vars

\* 'updates' was deselected and selected again in a state with its three
\* siblings of both systemAndPackages groups selected.
C38_Witness ==
    /\ lastToggle.id = "updates"
    /\ lastToggle.twice
    /\ lastToggle.isChecked
    /\ togglesLeft = MaxTwice - 4
    /\ selectedOptions["systemAndPackages"]
    /\ selectedOptions["autoUpdates"]
    /\ selectedOptions["dnfSecurity"]
    /\ ParentIffAllChildren(selectedOptions)

====
